---- MODULE Spec2Model ----
(***************************************************************************)
(* A model of the two numerical kernels of gmprocess:                      *)
(*   calculate_spectrals_c  (gmprocess/metrics/cfuncs.c, two variants)     *)
(*   konno_ohmachi_c        (waveform_processing/smoothing/smoothing.c)    *)
(*                                                                         *)
(* The kernels compute in C "double".  The model keeps the structure of    *)
(* IEEE-754 binary floating point (signed zeros, subnormals, infinities,   *)
(* NaN, round-to-nearest-even, overflow and underflow) at a reduced width: *)
(* Prec bits of significand and exponents up to EMax.                      *)
(***************************************************************************)
EXTENDS Integers, Sequences, FiniteSets, TLC

\* Bits of significand of the modelled floating-point format (53 in C).
Prec == 5
\* Largest binary exponent of the modelled format (1023 in C).
EMax == 24

\* Smallest exponent of a normal number (IEEE: emin = 1 - emax).
EMin == 1 - EMax
\* Exponent of the unit in the last place of the subnormal numbers.
ELo == EMin - (Prec - 1)

Pow2(n) == 2 ^ n

\* The number of bits of n, 0 <= n < 2^31 (acc: the bits already counted).
BitLen1(n, acc) == IF n >= 2 THEN acc + 2 ELSE acc + n
BitLen2(n, acc) == IF n >= 4 THEN BitLen1(n \div 4, acc + 2) ELSE BitLen1(n, acc)
BitLen4(n, acc) == IF n >= 16 THEN BitLen2(n \div 16, acc + 4) ELSE BitLen2(n, acc)
BitLen8(n, acc) == IF n >= 256 THEN BitLen4(n \div 256, acc + 8) ELSE BitLen4(n, acc)
BitLen(n) == IF n >= 65536 THEN BitLen8(n \div 65536, 16) ELSE BitLen8(n, 0)

Abs(n) == IF n < 0 THEN -n ELSE n

(***************************************************************************)
(* A double is a record: k is its class, s its sign (1 or -1) and, for a   *)
(* finite number, its value is s * m * 2^e with m < 2^Prec, e >= ELo and   *)
(* m >= 2^(Prec-1) unless e = ELo (subnormal) or m = 0 (zero, e = ELo).    *)
(***************************************************************************)
NaN == [k |-> "nan", s |-> 1, m |-> 0, e |-> ELo]
Inf(sg) == [k |-> "inf", s |-> sg, m |-> 0, e |-> ELo]
Zero(sg) == [k |-> "fin", s |-> sg, m |-> 0, e |-> ELo]
Fin(sg, mm, ee) == [k |-> "fin", s |-> sg, m |-> mm, e |-> ee]

IsNaN(a) == a.k = "nan"
IsInf(a) == a.k = "inf"
IsFinite(a) == a.k = "fin"
IsZero(a) == a.k = "fin" /\ a.m = 0

\* The double of significand m1 <= 2^Prec and exponent e0, or an infinity when
\* it is beyond the largest double.
PackDone(sg, m1, e0) ==
    IF m1 = 0 THEN Zero(sg)
    ELSE IF m1 = Pow2(Prec)
         THEN (IF e0 + Prec > EMax THEN Inf(sg) ELSE Fin(sg, Pow2(Prec - 1), e0 + 1))
    ELSE IF m1 >= Pow2(Prec - 1) /\ e0 + Prec - 1 > EMax THEN Inf(sg)
    ELSE Fin(sg, m1, e0)

\* Round to nearest, ties to even: q units, r of `2 * half` of a unit beyond.
PackRound(sg, q, r, half, sticky, e0) ==
    PackDone(sg,
             IF r > half \/ (r = half /\ (sticky \/ q % 2 = 1)) THEN q + 1 ELSE q,
             e0)

\* M has nb bits; the result's unit in the last place is 2^e0.
PackShift(sg, M, E, sticky, nb, e0) ==
    IF e0 <= E THEN PackDone(sg, M * Pow2(E - e0), e0)
    ELSE IF e0 - E > nb THEN Zero(sg)
    ELSE PackRound(sg, M \div Pow2(e0 - E), M % Pow2(e0 - E), Pow2(e0 - E - 1),
                   sticky, e0)

PackAt(sg, M, E, sticky, nb) ==
    PackShift(sg, M, E, sticky, nb,
              IF E + nb - Prec < ELo THEN ELo ELSE E + nb - Prec)

\* Round the exact value sg * M * 2^E (M > 0; sticky: plus a positive amount
\* below one unit of M, in which case M carries at least Prec + 2 bits) to the
\* nearest double, ties to even; overflow gives an infinity.
Pack(sg, M, E, sticky) ==
    IF M = 0 THEN Zero(sg) ELSE PackAt(sg, M, E, sticky, BitLen(M))

\* The double nearest to the integer n, and to the fraction n / d (n, d > 0).
FromInt(n) == IF n = 0 THEN Zero(1)
              ELSE Pack(IF n < 0 THEN -1 ELSE 1, Abs(n), 0, FALSE)

FromRat(n, d) ==
    LET K == 30 - BitLen(n)
        M == (n * Pow2(K)) \div d
    IN Pack(1, M, -K, (n * Pow2(K)) % d # 0)

FNeg(a) == IF IsNaN(a) THEN NaN ELSE [a EXCEPT !.s = -a.s]
FAbs(a) == IF IsNaN(a) THEN NaN ELSE [a EXCEPT !.s = 1]

\* a * b
FMul(a, b) ==
    IF IsNaN(a) \/ IsNaN(b) THEN NaN
    ELSE IF IsInf(a) \/ IsInf(b)
         THEN IF IsZero(a) \/ IsZero(b) THEN NaN ELSE Inf(a.s * b.s)
    ELSE IF a.m = 0 \/ b.m = 0 THEN Zero(a.s * b.s)
    ELSE Pack(a.s * b.s, a.m * b.m, a.e + b.e, FALSE)

\* a / b
FDiv(a, b) ==
    IF IsNaN(a) \/ IsNaN(b) THEN NaN
    ELSE IF IsInf(a) THEN (IF IsInf(b) THEN NaN ELSE Inf(a.s * b.s))
    ELSE IF IsInf(b) THEN Zero(a.s * b.s)
    ELSE IF b.m = 0 THEN (IF a.m = 0 THEN NaN ELSE Inf(a.s * b.s))
    ELSE IF a.m = 0 THEN Zero(a.s * b.s)
    ELSE LET K == 2 * Prec + 2 - BitLen(a.m)
             N == a.m * Pow2(K)
         IN Pack(a.s * b.s, N \div b.m, a.e - K - b.e, N % b.m # 0)

\* a + b
FAdd(a, b) ==
    IF IsNaN(a) \/ IsNaN(b) THEN NaN
    ELSE IF IsInf(a) THEN (IF IsInf(b) /\ b.s # a.s THEN NaN ELSE a)
    ELSE IF IsInf(b) THEN b
    ELSE IF a.m = 0 /\ b.m = 0 THEN Zero(IF a.s = -1 /\ b.s = -1 THEN -1 ELSE 1)
    ELSE IF a.m = 0 THEN b
    ELSE IF b.m = 0 THEN a
    ELSE LET hi == IF a.e >= b.e THEN a ELSE b
             lo == IF a.e >= b.e THEN b ELSE a
             d  == hi.e - lo.e
         IN IF d >= Prec + 3
            THEN \* lo is below a quarter of hi's unit in the last place
                 IF hi.s = lo.s THEN Pack(hi.s, hi.m * 4, hi.e - 2, TRUE)
                 ELSE Pack(hi.s, hi.m * 4 - 1, hi.e - 2, TRUE)
            ELSE LET v == hi.s * hi.m * Pow2(d) + lo.s * lo.m
                 IN IF v = 0 THEN Zero(1)
                    ELSE Pack(IF v < 0 THEN -1 ELSE 1, Abs(v), lo.e, FALSE)

\* a - b
FSub(a, b) == FAdd(a, FNeg(b))

\* The position of a double in the order of the doubles: consecutive doubles
\* have consecutive ranks, both zeros have rank 0.
Rank(a) == IF IsInf(a) THEN a.s * ((EMax + 3 - Prec - ELo) * Pow2(Prec - 1))
           ELSE a.s * ((a.e - ELo) * Pow2(Prec - 1) + a.m)

\* The comparisons of C: every comparison with a NaN is false.
FLt(a, b) == ~IsNaN(a) /\ ~IsNaN(b) /\ Rank(a) < Rank(b)
FGt(a, b) == FLt(b, a)
FLe(a, b) == ~IsNaN(a) /\ ~IsNaN(b) /\ Rank(a) <= Rank(b)
FGe(a, b) == FLe(b, a)
FEq(a, b) == ~IsNaN(a) /\ ~IsNaN(b) /\ Rank(a) = Rank(b)

\* The (int) conversion of C: truncation toward zero (the operand is finite
\* and within the range of int).
FToInt(a) == IF a.e >= 0 THEN a.s * a.m * Pow2(a.e)
             ELSE IF -a.e > Prec THEN 0
             ELSE a.s * (a.m \div Pow2(-a.e))

\* The largest integer not above a (the mathematical floor of a finite a).
FFloor(a) == IF a.e >= 0 THEN a.s * a.m * Pow2(a.e)
             ELSE LET q == IF -a.e > Prec THEN 0 ELSE a.m \div Pow2(-a.e)
                      exact == -a.e <= Prec /\ a.m % Pow2(-a.e) = 0
                  IN IF a.s = 1 \/ exact THEN a.s * q ELSE -q - 1

(***************************************************************************)
(* The functions of <math.h>.  The library computes each to within about a *)
(* unit in the last place; the model evaluates them in fixed point with    *)
(* FixBits fractional bits (reduced argument, Taylor series) and rounds    *)
(* the result to a double.  The special values follow C99 Annex F.         *)
(***************************************************************************)
FixOne == 2 ^ 14
FixBits == BitLen(FixOne) - 1
FixPi == (355 * FixOne) \div 113
FixHalfPi == FixPi \div 2
FixTwoPi == 2 * FixPi
FixLn2 == (2731 * FixOne) \div 3940
FixLog10Two == (4004 * FixOne) \div 13301
FixLog10E == (1000 * FixOne) \div 2303
FixLog2Ten == (13301 * FixOne) \div 4004

\* a * b of two fixed-point numbers, rounded toward zero.
FixMul(a, b) == LET p == a * b
                IN IF p >= 0 THEN p \div FixOne ELSE -((-p) \div FixOne)

FixDiv(a, n) == IF a >= 0 THEN a \div n ELSE -((-a) \div n)

\* The fixed-point number nearest toward zero to |a|, a finite with
\* |a| * FixOne below 2^30.
ToFix(a) == LET sh == a.e + FixBits
            IN IF sh >= 0 THEN a.m * Pow2(sh)
               ELSE IF -sh > Prec THEN 0
               ELSE a.m \div Pow2(-sh)

FromFix(X) == IF X = 0 THEN Zero(1)
              ELSE Pack(IF X < 0 THEN -1 ELSE 1, Abs(X), -FixBits, FALSE)

\* 2^k modulo 2 pi, in fixed point (k >= FixBits).
RECURSIVE Pow2ModTwoPi(_)
Pow2ModTwoPi(k) == IF k <= FixBits + 2 THEN Pow2(k) % FixTwoPi
                   ELSE (2 * Pow2ModTwoPi(k - 1)) % FixTwoPi

\* |a| modulo 2 pi, in fixed point.
ReduceTwoPi(a) == LET sh == a.e + FixBits
                  IN IF sh <= 30 - Prec THEN ToFix(a) % FixTwoPi
                     ELSE (a.m * Pow2ModTwoPi(sh)) % FixTwoPi

\* sin and cos of a fixed-point r in [-pi/4, pi/4].
SinSeries(r) == LET r2 == FixMul(r, r)
                    t3 == FixDiv(FixMul(r, r2), 6)
                    t5 == FixDiv(FixMul(t3, r2), 20)
                    t7 == FixDiv(FixMul(t5, r2), 42)
                IN r - t3 + t5 - t7

CosSeries(r) == LET r2 == FixMul(r, r)
                    t2 == FixDiv(r2, 2)
                    t4 == FixDiv(FixMul(t2, r2), 12)
                    t6 == FixDiv(FixMul(t4, r2), 30)
                    t8 == FixDiv(FixMul(t6, r2), 56)
                IN FixOne - t2 + t4 - t6 + t8

\* sin and cos of a fixed-point X in [0, 2 pi), by quadrant.
SinFix(X) == LET n == (X + FixHalfPi \div 2) \div FixHalfPi
                 r == X - n * FixHalfPi
             IN CASE n % 4 = 0 -> SinSeries(r)
                  [] n % 4 = 1 -> CosSeries(r)
                  [] n % 4 = 2 -> -SinSeries(r)
                  [] OTHER -> -CosSeries(r)

CosFix(X) == LET n == (X + FixHalfPi \div 2) \div FixHalfPi
                 r == X - n * FixHalfPi
             IN CASE n % 4 = 0 -> CosSeries(r)
                  [] n % 4 = 1 -> -SinSeries(r)
                  [] n % 4 = 2 -> -CosSeries(r)
                  [] OTHER -> SinSeries(r)

\* |a| < 2^n, for a finite nonzero a.
BelowPow2(a, n) == a.e + BitLen(a.m) <= n

\* sin(a)
FSin(a) == IF IsNaN(a) \/ IsInf(a) THEN NaN
           ELSE IF IsZero(a) \/ BelowPow2(a, -(Prec \div 2) - 1) THEN a
           ELSE LET v == SinFix(ReduceTwoPi(a))
                IN FromFix(a.s * v)

\* cos(a)
FCos(a) == IF IsNaN(a) \/ IsInf(a) THEN NaN
           ELSE IF IsZero(a) \/ BelowPow2(a, -(Prec \div 2) - 1) THEN FromInt(1)
           ELSE FromFix(CosFix(ReduceTwoPi(a)))

\* exp of a fixed-point r in [0, ln 2): a fixed-point number in [1, 2).
ExpSeries(r) == LET t2 == FixDiv(FixMul(r, r), 2)
                    t3 == FixDiv(FixMul(t2, r), 3)
                    t4 == FixDiv(FixMul(t3, r), 4)
                    t5 == FixDiv(FixMul(t4, r), 5)
                    t6 == FixDiv(FixMul(t5, r), 6)
                    t7 == FixDiv(FixMul(t6, r), 7)
                IN FixOne + r + t2 + t3 + t4 + t5 + t6 + t7

\* exp(a)
FExp(a) == IF IsNaN(a) THEN NaN
           ELSE IF IsInf(a) THEN (IF a.s = 1 THEN a ELSE Zero(1))
           ELSE IF IsZero(a) \/ BelowPow2(a, -Prec - 2) THEN FromInt(1)
           ELSE IF ~BelowPow2(a, BitLen(EMax + Prec))
                THEN (IF a.s = 1 THEN Inf(1) ELSE Zero(1))
           ELSE LET X == a.s * ToFix(a)
                    n == X \div FixLn2
                    r == X - n * FixLn2
                IN Pack(1, ExpSeries(r), n - FixBits, FALSE)

\* pow(10.0, a)
FPow10(a) == IF IsNaN(a) THEN NaN
             ELSE IF IsInf(a) THEN (IF a.s = 1 THEN a ELSE Zero(1))
             ELSE IF IsZero(a) \/ BelowPow2(a, -Prec - 3) THEN FromInt(1)
             ELSE IF ~BelowPow2(a, BitLen(EMax + Prec))
                  THEN (IF a.s = 1 THEN Inf(1) ELSE Zero(1))
             ELSE LET Y == ToFix(a)
                      T == a.s * (IF Y < FixOne
                                  THEN (Y * FixLog2Ten) \div FixOne
                                  ELSE ((Y \div 64) * FixLog2Ten) \div (FixOne \div 64))
                      n == T \div FixOne
                      r == T - n * FixOne
                  IN Pack(1, ExpSeries(FixMul(r, FixLn2)), n - FixBits, FALSE)

\* 2 * atanh(z) = ln((1 + z) / (1 - z)) of a fixed-point z, |z| <= 1/5.
LnSeries(z, z2) ==
    2 * (z + FixDiv(FixMul(z, z2), 3)
           + FixDiv(FixMul(FixMul(z, z2), z2), 5)
           + FixDiv(FixMul(FixMul(FixMul(z, z2), z2), z2), 7))

\* log10 of mm / den * 2^q, with mm / den in [3/4, 3/2).
Log10Fix(mm, den, q) ==
    q * FixLog10Two
    + FixMul(LnSeries(FixDiv((mm - den) * FixOne, mm + den),
                      FixMul(FixDiv((mm - den) * FixOne, mm + den),
                             FixDiv((mm - den) * FixOne, mm + den))),
             FixLog10E)

Log10At(a, nb) ==
    IF 2 * a.m >= 3 * Pow2(nb - 1)
    THEN Log10Fix(a.m, Pow2(nb), a.e + nb)
    ELSE Log10Fix(a.m, Pow2(nb - 1), a.e + nb - 1)

\* log10(a)
FLog10(a) == IF IsNaN(a) THEN NaN
             ELSE IF IsZero(a) THEN Inf(-1)
             ELSE IF a.s = -1 THEN NaN
             ELSE IF IsInf(a) THEN a
             ELSE FromFix(Log10At(a, BitLen(a.m)))

RECURSIVE ISqrtBits(_, _, _)
ISqrtBits(M, bit, acc) ==
    IF bit = 0 THEN acc
    ELSE IF (acc + bit) * (acc + bit) <= M THEN ISqrtBits(M, bit \div 2, acc + bit)
    ELSE ISqrtBits(M, bit \div 2, acc)

\* sqrt(a), correctly rounded.
FSqrt(a) == IF IsNaN(a) THEN NaN
            ELSE IF IsZero(a) THEN a
            ELSE IF a.s = -1 THEN NaN
            ELSE IF IsInf(a) THEN a
            ELSE LET K0 == 2 * Prec + 4 - BitLen(a.m)
                     K == K0 + ((a.e - K0) % 2)
                     M == a.m * Pow2(K)
                     r == ISqrtBits(M, Pow2(Prec + 3), 0)
                 IN Pack(1, r, (a.e - K) \div 2, r * r # M)

(***************************************************************************)
(* The literals of the sources.                                            *)
(***************************************************************************)
One == FromInt(1)
Two == FromInt(2)
Three == FromInt(3)
Ten == FromInt(10)
\* M_PI
MPi == FromRat(355, 113)
\* 0.01
Hundredth == FromRat(1, 100)
\* 1e-6
Eps6 == FromRat(1, 1000000)

(***************************************************************************)
(* Memory.  An array of n doubles is a function on 0 .. n-1.  An access    *)
(* outside the array is undefined behaviour: a load yields any value of    *)
(* Garbage, a store is not kept; either sets the flag oob.                 *)
(***************************************************************************)
Garbage == {Zero(1), One, NaN}
InBounds(arr, idx) == idx \in DOMAIN arr
Loads(arr, idx) == IF InBounds(arr, idx) THEN {arr[idx]} ELSE Garbage
Store(arr, idx, v) == IF InBounds(arr, idx) THEN [arr EXCEPT ![idx] = v] ELSE arr

(***************************************************************************)
(* calculate_spectrals_c, current variant (src/src/gmprocess/metrics).     *)
(***************************************************************************)
\* The per-call constants.
CurrentConsts(dt, period, damping) ==
    LET w == FDiv(FMul(Two, MPi), period)
        d == damping
        wd == FMul(FSqrt(FSub(One, FMul(d, d))), w)
        e == FExp(FMul(FMul(FMul(FromInt(-1), d), w), dt))
        w2 == FMul(w, w)
        w3 == FMul(w2, w)
    IN [w |-> w, d |-> d, wd |-> wd, ns |-> One, dt |-> dt, e |-> e,
        sine |-> FMul(e, FSin(FMul(wd, dt))),
        cosine |-> FMul(e, FCos(FMul(wd, dt))),
        w2 |-> w2, w3 |-> w3,
        w2i |-> FDiv(One, w2),
        wdi |-> FDiv(One, wd),
        dw |-> FMul(d, w),
        ddtw3 |-> FDiv(FMul(Two, d), FMul(dt, w3))]

\* dug = acc[k + 1] - g
CurrentDug(g, g1) == FSub(g1, g)
\* b with the factor g of gw2i dropped.
CurrentBNoForcing(c, g, dug, sdprev) ==
    FSub(FAdd(sdprev, c.w2i), FMul(c.ddtw3, dug))
\* b = sdis[k - 1] + gw2i - ddtw3 * dug
CurrentB(c, g, dug, sdprev) ==
    FSub(FAdd(sdprev, FMul(g, c.w2i)), FMul(c.ddtw3, dug))
\* a = wdi * svel[k - 1] + dw * wdi * b + wdi * dugw2idt
CurrentA(c, dug, b, svprev) ==
    FAdd(FAdd(FMul(c.wdi, svprev), FMul(FMul(c.dw, c.wdi), b)),
         FMul(c.wdi, FDiv(FMul(dug, c.w2i), c.dt)))
\* sdis[k] = a * sine + b * cosine + ddtw3 * dug - gw2i - dugw2i
CurrentSdis(c, g, dug, a, b) ==
    FSub(FSub(FAdd(FAdd(FMul(a, c.sine), FMul(b, c.cosine)), FMul(c.ddtw3, dug)),
              FMul(g, c.w2i)),
         FMul(dug, c.w2i))
\* svel[k] = a * (wd * cosine - dw * sine) - b * (wd * sine + dw * cosine)
\*           - dugw2idt
CurrentSvel(c, dug, a, b) ==
    FSub(FSub(FMul(a, FSub(FMul(c.wd, c.cosine), FMul(c.dw, c.sine))),
              FMul(b, FAdd(FMul(c.wd, c.sine), FMul(c.dw, c.cosine)))),
         FDiv(FMul(dug, c.w2i), c.dt))
\* sacc[k] = -2. * dw * svel[k] - w2 * sdis[k]
CurrentSacc(c, sd, sv) ==
    FSub(FMul(FMul(FromInt(-2), c.dw), sv), FMul(c.w2, sd))

CurrentOut(c, dug, sd, sv) ==
    [dug |-> dug, sdis |-> sd, svel |-> sv, sacc |-> CurrentSacc(c, sd, sv)]
CurrentFrom(c, g, dug, a, b) ==
    CurrentOut(c, dug, CurrentSdis(c, g, dug, a, b), CurrentSvel(c, dug, a, b))
CurrentWithB(c, g, dug, b, svprev) ==
    CurrentFrom(c, g, dug, CurrentA(c, dug, b, svprev), b)
\* The state after one step under the forcing g and its increment dug, from
\* the state (sdprev, svprev).
CurrentAdvance(c, g, dug, sdprev, svprev) ==
    CurrentWithB(c, g, dug, CurrentB(c, g, dug, sdprev), svprev)
\* One step of the recurrence for g = acc[k], g1 = acc[k + 1]; the first step
\* (index 0) runs it from the state (0, 0).
CurrentStep(c, g, g1, sdprev, svprev) ==
    CurrentAdvance(c, g, CurrentDug(g, g1), sdprev, svprev)

\* The loop that runs one index too far.
CurrentLoopCondToEnd(kk, n) == kk < n
\* for (k = 1; k < np - 1; k++)
CurrentLoopCond(kk, n) == kk < n - 1

(***************************************************************************)
(* calculate_spectrals_c, legacy variant (src/gmprocess/metrics).          *)
(***************************************************************************)
\* ns with the conversion rounding down instead of toward zero.
LegacyNsFloor(dt_in, period) ==
    FAdd(FromInt(FFloor(FSub(FDiv(FMul(Ten, dt_in), period), Hundredth))), One)
\* ns = (int)(10. * dt_in / period - 0.01) + 1.0
LegacyNs(dt_in, period) ==
    FAdd(FromInt(FToInt(FSub(FDiv(FMul(Ten, dt_in), period), Hundredth))), One)

\* The (int) conversion is defined: its operand is finite and within int.
IntDefined(v) == IsFinite(v) /\ v.e + BitLen(v.m) <= 30
\* What an undefined (int) conversion may yield.
IntGarbage == {0, -(2 ^ 30)}
\* The values ns may take.
LegacyNsSet(dt_in, period) ==
    IF IntDefined(FSub(FDiv(FMul(Ten, dt_in), period), Hundredth))
    THEN {LegacyNs(dt_in, period)}
    ELSE {FAdd(FromInt(n), One) : n \in IntGarbage}

LegacyConsts(t0, t1, period, damping, ns) ==
    LET w == FDiv(FMul(Two, MPi), period)
        d == damping
        wd == FMul(FSqrt(FSub(One, FMul(d, d))), w)
        dt_in == FSub(t1, t0)
        dt == FDiv(dt_in, ns)
        e == FExp(FMul(FMul(FMul(FromInt(-1), d), w), dt))
        w2 == FMul(w, w)
        w3 == FMul(w2, w)
    IN [w |-> w, d |-> d, wd |-> wd, dt_in |-> dt_in, ns |-> ns, dt |-> dt,
        e |-> e,
        sine |-> FMul(e, FSin(FMul(wd, dt))),
        cosine |-> FMul(e, FCos(FMul(wd, dt))),
        w2 |-> w2, w3 |-> w3,
        w2i |-> FDiv(One, w2),
        wdi |-> FDiv(One, wd),
        dw |-> FMul(d, w),
        ddtw3 |-> FDiv(FMul(Two, d), FMul(dt, w3))]
\* dug without the division by ns.
LegacyDugWhole(c, g, g1) == FSub(g1, g)
\* dug = (acc[k+1] - g) / ns
LegacyDug(c, g, g1) == FDiv(FSub(g1, g), c.ns)
\* b = sdis[k-1] + gw2i - ddtw3 * dug
LegacyB(c, g, dug, sdprev) ==
    FSub(FAdd(sdprev, FMul(g, c.w2i)), FMul(c.ddtw3, dug))
\* a = wdi * svel[k-1] + dw * wdi * b + wdi * dugw2idt
LegacyA(c, dug, b, svprev) ==
    FAdd(FAdd(FMul(c.wdi, svprev), FMul(FMul(c.dw, c.wdi), b)),
         FMul(c.wdi, FDiv(FMul(dug, c.w2i), c.dt)))
\* sdis[k] = a * sine + b * cosine + ddtw3 * dug - gw2i - dugw2i
LegacySdis(c, g, dug, a, b) ==
    FSub(FSub(FAdd(FAdd(FMul(a, c.sine), FMul(b, c.cosine)), FMul(c.ddtw3, dug)),
              FMul(g, c.w2i)),
         FMul(dug, c.w2i))
\* svel[k] = a * (wd * cosine - dw * sine) - b * (wd * sine + dw * cosine)
\*           - dugw2idt
LegacySvel(c, dug, a, b) ==
    FSub(FSub(FMul(a, FSub(FMul(c.wd, c.cosine), FMul(c.dw, c.sine))),
              FMul(b, FAdd(FMul(c.wd, c.sine), FMul(c.dw, c.cosine)))),
         FDiv(FMul(dug, c.w2i), c.dt))
\* sacc[k] = -2. * dw * svel[k] - w2 * sdis[k]
LegacySacc(c, sd, sv) ==
    FSub(FMul(FMul(FromInt(-2), c.dw), sv), FMul(c.w2, sd))

LegacyOut(c, dug, sd, sv) ==
    [dug |-> dug, sdis |-> sd, svel |-> sv, sacc |-> LegacySacc(c, sd, sv)]
LegacyFrom(c, g, dug, a, b) ==
    LegacyOut(c, dug, LegacySdis(c, g, dug, a, b), LegacySvel(c, dug, a, b))
LegacyWithB(c, g, dug, b, svprev) ==
    LegacyFrom(c, g, dug, LegacyA(c, dug, b, svprev), b)
LegacyAdvance(c, g, dug, sdprev, svprev) ==
    LegacyWithB(c, g, dug, LegacyB(c, g, dug, sdprev), svprev)
\* One step of the recurrence for g = acc[k], g1 = acc[k+1]; the first step
\* (index 0) runs it from the state (0, 0).
LegacyStep(c, g, g1, sdprev, svprev) ==
    LegacyAdvance(c, g, LegacyDug(c, g, g1), sdprev, svprev)

\* for (k = 1; k < np-1; k++)
LegacyLoopCond(kk, n) == kk < n - 1

(***************************************************************************)
(* konno_ohmachi_c (src/gmprocess/waveform_processing/smoothing).          *)
(***************************************************************************)
\* max_ratio = pow(10.0, (3.0 / bandwidth))
KoMaxRatio(bw) == FPow10(FDiv(Three, bw))
\* min_ratio = 1.0 / max_ratio
KoMinRatio(maxr) == FDiv(One, maxr)
\* The skip that takes only the targets that are not positive.
KoSkipNonPositive(fc) == FLe(fc, Zero(1))
\* fc < 1e-6
KoSkipTarget(fc) == FLt(fc, Eps6)
\* The exclusion that asks the ratio to be off both bounds at once.
KoExcludedBoth(freq, frat, maxr, minr) ==
    FLt(freq, Eps6) \/ (FGt(frat, maxr) /\ FLt(frat, minr))
\* freq < 1e-6 || frat > max_ratio || frat < min_ratio
KoExcluded(freq, frat, maxr, minr) ==
    FLt(freq, Eps6) \/ FGt(frat, maxr) \/ FLt(frat, minr)
\* fabs(freq - fc) < 1e-6
KoExactMatch(freq, fc) == FLt(FAbs(FSub(freq, fc)), Eps6)
\* x = bandwidth * log10(frat); window = sin(x) / x, squared twice
KoSquare(v) == FMul(v, v)
\* The window with the cosine in place of the sine.
KoSincCos(xx) == FDiv(FCos(xx), xx)
KoSinc(xx) == FDiv(FSin(xx), xx)
KoWindow(frat, bw) == KoSquare(KoSquare(KoSinc(FMul(bw, FLog10(frat)))))
\* The weight without the branch for a frequency at the target.
KoWeightNoMatch(freq, fc, frat, bw) == KoWindow(frat, bw)
\* The window of a pair that is not excluded.
KoWeight(freq, fc, frat, bw) ==
    IF KoExactMatch(freq, fc) THEN One ELSE KoWindow(frat, bw)
\* The result that is not divided by the sum of the windows.
KoResultTotal(tot, wtot) == IF FGt(wtot, Zero(1)) THEN tot ELSE NaN
\* if (window_total > 0) total / window_total else NAN
KoResult(tot, wtot) == IF FGt(wtot, Zero(1)) THEN FDiv(tot, wtot) ELSE NaN

(***************************************************************************)
(* The calls the model makes.                                              *)
(***************************************************************************)
\* Longest acc / times / spec / freqs array.
MaxNp == 4
\* Longest ko_freqs array.
MaxNko == 2

\* What every output element holds before the call.
Sentinel == FromInt(7)

Periods == {One, FromRat(1, 4), FromRat(1, 4096), FromInt(4096),
            Zero(1), FromInt(-1)}
Dampings == {Zero(1), FromRat(1, 20), FromRat(1, 2), One, FromRat(3, 2)}
Dts == {FromRat(1, 128), FromRat(1, 16), FromRat(1, 2)}

AccPattern(p, kk) ==
    CASE p = 0 -> Zero(1)
      [] p = 1 -> <<Zero(1), One, One, Zero(1)>>[(kk % 4) + 1]
      [] OTHER -> <<One, FromRat(1, 2), FromInt(-2), FromRat(3, 4)>>[(kk % 4) + 1]
AccArrays(n) == {[kk \in 0 .. n - 1 |-> AccPattern(p, kk)] : p \in 0 .. 2}
TimesArray(n, step) == [kk \in 0 .. n - 1 |-> FMul(FromInt(kk), step)]
Fresh(n) == [kk \in 0 .. n - 1 |-> Sentinel]
Empty == [kk \in {} |-> Zero(1)]

\* The least positive double.
MinSub == Fin(1, 1, ELo)
\* The double just below 1e-6.
BelowEps6 == IF Eps6.m = Pow2(Prec - 1) THEN Fin(1, Pow2(Prec) - 1, Eps6.e - 1)
             ELSE Fin(1, Eps6.m - 1, Eps6.e)
\* 1.5e-6
Eps6x == FMul(Eps6, FromRat(3, 2))

Bandwidths == {FromInt(20), FromInt(5), One, Zero(1), FromInt(-1), MinSub}
KoTargets == <<Three, Zero(1), Eps6x, FromInt(-1), FromInt(64), BelowEps6>>
KoArrays(n) == {[ii \in 0 .. n - 1 |-> KoTargets[((r + ii) % Len(KoTargets)) + 1]] :
                   r \in 0 .. Len(KoTargets) - 1}
FreqPattern(p, jj) ==
    CASE p = 0 -> FromInt(jj + 1)
      [] OTHER -> <<Zero(1), BelowEps6, Eps6, Eps6x, Three>>[(jj % 5) + 1]
FreqArrays(n) == {[jj \in 0 .. n - 1 |-> FreqPattern(p, jj)] : p \in 0 .. 1}
SpecPattern(p, jj) ==
    CASE p = 0 -> One
      [] p = 1 -> FromRat(1, 10)
      [] p = 2 -> <<Two, FromRat(1, 2), FromInt(5), One, Three>>[(jj % 5) + 1]
      [] OTHER -> <<FromInt(-1), Two, FromInt(-3), FromRat(1, 4), One>>[(jj % 5) + 1]
SpecArrays(n) == {[jj \in 0 .. n - 1 |-> SpecPattern(p, jj)] : p \in 0 .. 3}

VARIABLES
    fn,        \* the function called: "current", "legacy" or "ko"
    pc,        \* the position in it
    np, acc, times, dt, period, damping,   \* calculate_spectrals_c: inputs
    sacc, svel, sdis,                      \* and outputs
    cst, k,                                \* and locals
    spec, freqs, ko_freqs, nko, bandwidth, \* konno_ohmachi_c: inputs
    ko_smooth,                             \* and output
    i, j, total, window_total, max_ratio, min_ratio,  \* and locals
    wlog,      \* history: the stores made, <<array, index>>, in order
    oob,       \* history: an access fell outside its array
    visit,     \* history: the (i, j) pairs the inner loop went through
    fin        \* history: total and window_total of each target, at its end

vars == <<fn, pc, np, acc, times, dt, period, damping, sacc, svel, sdis, cst, k,
          spec, freqs, ko_freqs, nko, bandwidth, ko_smooth, i, j, total,
          window_total, max_ratio, min_ratio, wlog, oob, visit, fin>>

spectralIn == <<np, acc, times, dt, period, damping>>
koIn == <<spec, freqs, ko_freqs, nko, bandwidth>>
koAll == <<spec, freqs, ko_freqs, nko, bandwidth, ko_smooth, i, j, total,
           window_total, max_ratio, min_ratio, visit, fin>>

NoKo ==
    /\ spec = Empty /\ freqs = Empty /\ ko_freqs = Empty /\ nko = 0
    /\ bandwidth = One /\ ko_smooth = Empty /\ i = 0 /\ j = 0
    /\ total = Zero(1) /\ window_total = Zero(1)
    /\ max_ratio = Zero(1) /\ min_ratio = Zero(1)
    /\ visit = <<>> /\ fin = <<>>

InitHistory == wlog = <<>> /\ oob = FALSE

InitCurrent ==
    /\ fn = "current" /\ pc = "prologue"
    /\ np \in 0 .. MaxNp
    /\ acc \in AccArrays(np)
    /\ times = Empty
    /\ dt \in Dts /\ period \in Periods /\ damping \in Dampings
    /\ sacc = Fresh(np) /\ svel = Fresh(np) /\ sdis = Fresh(np)
    /\ cst = [dt |-> dt] /\ k = 0
    /\ NoKo /\ InitHistory

InitLegacy ==
    /\ fn = "legacy" /\ pc = "prologue"
    /\ np \in 0 .. MaxNp
    /\ acc \in AccArrays(np)
    /\ \E step \in Dts : times = TimesArray(np, step)
    /\ dt = Zero(1)
    /\ period \in Periods /\ damping \in Dampings
    /\ sacc = Fresh(np) /\ svel = Fresh(np) /\ sdis = Fresh(np)
    /\ cst = [dt |-> dt] /\ k = 0
    /\ NoKo /\ InitHistory

NoSpectral ==
    /\ acc = Empty /\ times = Empty /\ dt = Zero(1) /\ period = One
    /\ damping = Zero(1) /\ sacc = Empty /\ svel = Empty /\ sdis = Empty
    /\ cst = [dt |-> dt] /\ k = 0

InitKo ==
    /\ fn = "ko" /\ pc = "prologue"
    /\ np \in 0 .. MaxNp
    /\ spec \in SpecArrays(np)
    /\ freqs \in FreqArrays(np)
    /\ nko \in 0 .. MaxNko
    /\ ko_freqs \in KoArrays(nko)
    /\ bandwidth \in Bandwidths
    /\ ko_smooth = Fresh(nko)
    /\ i = 0 /\ j = 0 /\ total = Zero(1) /\ window_total = Zero(1)
    /\ max_ratio = Zero(1) /\ min_ratio = Zero(1)
    /\ visit = <<>> /\ fin = <<>>
    /\ NoSpectral /\ InitHistory

\* The stores of one step, in the order of the source.
StepStores(idx) == <<<<"sdis", idx>>, <<"svel", idx>>, <<"sacc", idx>>>>

WriteStep(idx, r) ==
    /\ sdis' = Store(sdis, idx, r.sdis)
    /\ svel' = Store(svel, idx, r.svel)
    /\ sacc' = Store(sacc, idx, r.sacc)
    /\ wlog' = wlog \o StepStores(idx)

\* Lines 19-31: the constants.
CurrentPrologue ==
    /\ fn = "current" /\ pc = "prologue"
    /\ cst' = CurrentConsts(dt, period, damping)
    /\ pc' = "first"
    /\ UNCHANGED <<fn, spectralIn, sacc, svel, sdis, k, koAll, wlog, oob>>

\* Lines 43-54: index 0, from the zero state.
CurrentFirst ==
    /\ fn = "current" /\ pc = "first"
    /\ \E g \in Loads(acc, 0), g1 \in Loads(acc, 1) :
          WriteStep(0, CurrentStep(cst, g, g1, Zero(1), Zero(1)))
    /\ oob' = (oob \/ ~InBounds(acc, 0) \/ ~InBounds(acc, 1) \/ ~InBounds(sdis, 0))
    /\ k' = 1
    /\ pc' = "loop"
    /\ UNCHANGED <<fn, spectralIn, cst, koAll>>

\* Lines 55-70: one iteration of the loop.
CurrentLoop ==
    /\ fn = "current" /\ pc = "loop"
    /\ CurrentLoopCond(k, np)
    /\ \E g \in Loads(acc, k), g1 \in Loads(acc, k + 1),
          sd \in Loads(sdis, k - 1), sv \in Loads(svel, k - 1) :
          WriteStep(k, CurrentStep(cst, g, g1, sd, sv))
    /\ oob' = (oob \/ ~InBounds(acc, k + 1) \/ ~InBounds(sdis, k))
    /\ k' = k + 1
    /\ UNCHANGED <<fn, pc, spectralIn, cst, koAll>>

\* Line 71: return.
CurrentReturn ==
    /\ fn = "current" /\ pc = "loop"
    /\ ~CurrentLoopCond(k, np)
    /\ pc' = "done"
    /\ UNCHANGED <<fn, spectralIn, sacc, svel, sdis, cst, k, koAll, wlog, oob>>

\* Lines 18-33: the constants; times[0] and times[1] are read.
LegacyPrologue ==
    /\ fn = "legacy" /\ pc = "prologue"
    /\ \E t0 \in Loads(times, 0), t1 \in Loads(times, 1) :
          \E ns \in LegacyNsSet(FSub(t1, t0), period) :
             cst' = LegacyConsts(t0, t1, period, damping, ns)
    /\ oob' = (oob \/ ~InBounds(times, 0) \/ ~InBounds(times, 1))
    /\ pc' = "first"
    /\ UNCHANGED <<fn, spectralIn, sacc, svel, sdis, k, koAll, wlog>>

\* Lines 45-56: index 0, from the zero state.
LegacyFirst ==
    /\ fn = "legacy" /\ pc = "first"
    /\ \E g \in Loads(acc, 0), g1 \in Loads(acc, 1) :
          WriteStep(0, LegacyStep(cst, g, g1, Zero(1), Zero(1)))
    /\ oob' = (oob \/ ~InBounds(acc, 0) \/ ~InBounds(acc, 1) \/ ~InBounds(sdis, 0))
    /\ k' = 1
    /\ pc' = "loop"
    /\ UNCHANGED <<fn, spectralIn, cst, koAll>>

\* Lines 57-71: one iteration of the loop.
LegacyLoop ==
    /\ fn = "legacy" /\ pc = "loop"
    /\ LegacyLoopCond(k, np)
    /\ \E g \in Loads(acc, k), g1 \in Loads(acc, k + 1),
          sd \in Loads(sdis, k - 1), sv \in Loads(svel, k - 1) :
          WriteStep(k, LegacyStep(cst, g, g1, sd, sv))
    /\ oob' = (oob \/ ~InBounds(acc, k + 1) \/ ~InBounds(sdis, k))
    /\ k' = k + 1
    /\ UNCHANGED <<fn, pc, spectralIn, cst, koAll>>

\* Line 72: return.
LegacyReturn ==
    /\ fn = "legacy" /\ pc = "loop"
    /\ ~LegacyLoopCond(k, np)
    /\ pc' = "done"
    /\ UNCHANGED <<fn, spectralIn, sacc, svel, sdis, cst, k, koAll, wlog, oob>>

\* Lines 21-22: the bounds of the window.
KoPrologue ==
    /\ fn = "ko" /\ pc = "prologue"
    /\ max_ratio' = KoMaxRatio(bandwidth)
    /\ min_ratio' = KoMinRatio(KoMaxRatio(bandwidth))
    /\ i' = 0
    /\ pc' = "outer"
    /\ UNCHANGED <<fn, spectralIn, sacc, svel, sdis, cst, k, koIn, ko_smooth, j,
                   total, window_total, wlog, oob, visit, fin>>

\* Lines 25-29: a target below 1e-6 gets NAN, and the loop goes on.
KoSkip ==
    /\ fn = "ko" /\ pc = "outer" /\ i < nko
    /\ KoSkipTarget(ko_freqs[i])
    /\ ko_smooth' = Store(ko_smooth, i, NaN)
    /\ wlog' = Append(wlog, <<"ko_smooth", i>>)
    /\ fin' = Append(fin, [i |-> i, skipped |-> TRUE, total |-> total,
                           window_total |-> window_total])
    /\ i' = i + 1
    /\ UNCHANGED <<fn, pc, spectralIn, sacc, svel, sdis, cst, k, koIn, j, total,
                   window_total, max_ratio, min_ratio, oob, visit>>

\* Lines 25-31: any other target starts its sums.
KoBegin ==
    /\ fn = "ko" /\ pc = "outer" /\ i < nko
    /\ ~KoSkipTarget(ko_freqs[i])
    /\ total' = Zero(1)
    /\ window_total' = Zero(1)
    /\ j' = 0
    /\ pc' = "inner"
    /\ UNCHANGED <<fn, spectralIn, sacc, svel, sdis, cst, k, koIn, ko_smooth, i,
                   max_ratio, min_ratio, wlog, oob, visit, fin>>

\* Lines 33-37: a pair outside the window is passed over.
KoExclude ==
    /\ fn = "ko" /\ pc = "inner" /\ j < np
    /\ KoExcluded(freqs[j], FDiv(freqs[j], ko_freqs[i]), max_ratio, min_ratio)
    /\ visit' = Append(visit, [i |-> i, j |-> j, incl |-> FALSE, window |-> Zero(1)])
    /\ j' = j + 1
    /\ UNCHANGED <<fn, pc, spectralIn, sacc, svel, sdis, cst, k, koIn, ko_smooth,
                   i, total, window_total, max_ratio, min_ratio, wlog, oob, fin>>

\* Lines 33-47: a pair inside the window adds its weight.
KoAccumulate ==
    /\ fn = "ko" /\ pc = "inner" /\ j < np
    /\ ~KoExcluded(freqs[j], FDiv(freqs[j], ko_freqs[i]), max_ratio, min_ratio)
    /\ \E window \in {KoWeight(freqs[j], ko_freqs[i],
                               FDiv(freqs[j], ko_freqs[i]), bandwidth)} :
          /\ total' = FAdd(total, FMul(window, spec[j]))
          /\ window_total' = FAdd(window_total, window)
          /\ visit' = Append(visit, [i |-> i, j |-> j, incl |-> TRUE,
                                     window |-> window])
    /\ j' = j + 1
    /\ UNCHANGED <<fn, pc, spectralIn, sacc, svel, sdis, cst, k, koIn, ko_smooth,
                   i, max_ratio, min_ratio, wlog, oob, fin>>

\* Lines 49-53: the end of the inner loop stores the target's value.
KoStore ==
    /\ fn = "ko" /\ pc = "inner" /\ ~(j < np)
    /\ ko_smooth' = Store(ko_smooth, i, KoResult(total, window_total))
    /\ wlog' = Append(wlog, <<"ko_smooth", i>>)
    /\ fin' = Append(fin, [i |-> i, skipped |-> FALSE, total |-> total,
                           window_total |-> window_total])
    /\ i' = i + 1
    /\ pc' = "outer"
    /\ UNCHANGED <<fn, spectralIn, sacc, svel, sdis, cst, k, koIn, j, total,
                   window_total, max_ratio, min_ratio, oob, visit>>

\* Line 55: return.
KoReturn ==
    /\ fn = "ko" /\ pc = "outer" /\ ~(i < nko)
    /\ pc' = "done"
    /\ UNCHANGED <<fn, spectralIn, sacc, svel, sdis, cst, k, koAll, wlog, oob>>

InitSpectral == InitCurrent \/ InitLegacy

NextSpectral ==
    \/ CurrentPrologue \/ CurrentFirst \/ CurrentLoop \/ CurrentReturn
    \/ LegacyPrologue \/ LegacyFirst \/ LegacyLoop \/ LegacyReturn

NextKo ==
    \/ KoPrologue \/ KoSkip \/ KoBegin \/ KoExclude \/ KoAccumulate
    \/ KoStore \/ KoReturn

Init == InitSpectral \/ InitKo

Next == NextSpectral \/ NextKo

\* Every call.
Spec == Init /\ [][Next]_vars
\* The calls of calculate_spectrals_c.
SpecSpectral == InitSpectral /\ [][NextSpectral]_vars
\* The calls of konno_ohmachi_c.
SpecKo == InitKo /\ [][NextKo]_vars

(***************************************************************************)
(* Properties of calculate_spectrals_c.                                    *)
(***************************************************************************)
IsSpectral == fn \in {"current", "legacy"}

\* The stores a call with n samples is to make, in order: sdis, svel and sacc
\* at index 0, then at index 1, ... up to index n - 2.
ExpectedStores(n) ==
    [q \in 1 .. 3 * (n - 1) |-> StepStores((q - 1) \div 3)[((q - 1) % 3) + 1]]

IsPrefix(a, b) == Len(a) <= Len(b) /\ a = SubSeq(b, 1, Len(a))

FrameOutputs ==
    (IsSpectral /\ np >= 2) =>
        /\ ~oob
        /\ IsPrefix(wlog, ExpectedStores(np))
        /\ (pc = "done" => wlog = ExpectedStores(np))
        /\ sdis[np - 1] = Sentinel
        /\ svel[np - 1] = Sentinel
        /\ sacc[np - 1] = Sentinel
        /\ \A kk \in 0 .. np - 2 :
              3 * kk >= Len(wlog) =>
                  sdis[kk] = Sentinel /\ svel[kk] = Sentinel /\ sacc[kk] = Sentinel

FrameInputs == acc' = acc /\ times' = times

\* C1: in both variants of calculate_spectrals_c, for np >= 2, the stores are
\* exactly sdis, svel and sacc at the indices 0 .. np - 2, each once and in
\* increasing order; index np - 1 of every output keeps the value it had before
\* the call, no access leaves an array, and acc and times are never written.
C1_Frame == [](FrameOutputs) /\ [][FrameInputs]_vars

C1_Witness ==
    /\ fn = "legacy" /\ pc = "done" /\ np = MaxNp
    /\ Len(wlog) = 3 * (MaxNp - 1)
    /\ sdis[np - 2] # Sentinel /\ sdis[np - 1] = Sentinel

ZeroForcing == \A kk \in DOMAIN acc : IsZero(acc[kk])

ValidOscillator ==
    /\ FGt(period, Zero(1))
    /\ FGe(damping, Zero(1)) /\ FLt(damping, One)
    /\ FGt(dt, Zero(1))

\* Every output element the call fills is zero.
OutputsZero ==
    \A kk \in 0 .. np - 2 : IsZero(sdis[kk]) /\ IsZero(svel[kk]) /\ IsZero(sacc[kk])

\* The constants a step multiplies the forcing and the state by are all finite:
\* none of them overflowed, and no division by an underflowed w3 or wd occurred.
ConstsFinite(c) ==
    /\ IsFinite(c.w2) /\ IsFinite(c.w2i) /\ IsFinite(c.wdi) /\ IsFinite(c.dw)
    /\ IsFinite(FMul(c.dw, c.wdi)) /\ IsFinite(c.ddtw3)
    /\ IsFinite(c.sine) /\ IsFinite(c.cosine)
    /\ IsFinite(FSub(FMul(c.wd, c.cosine), FMul(c.dw, c.sine)))
    /\ IsFinite(FAdd(FMul(c.wd, c.sine), FMul(c.dw, c.cosine)))

\* C4 as stated: with np >= 2, period > 0, 0 <= damping < 1, dt > 0 and a zero
\* acc, every filled element of sacc, svel and sdis is zero.
C4_ZeroAsStated ==
    (fn = "current" /\ pc = "done" /\ np >= 2 /\ ValidOscillator /\ ZeroForcing)
        => OutputsZero

\* C4: with np >= 2, period > 0, 0 <= damping < 1, dt > 0, a zero acc, and
\* per-call constants that are all finite, every filled element of sacc, svel
\* and sdis is zero.
C4_ZeroResponse ==
    (fn = "current" /\ pc = "done" /\ np >= 2 /\ ValidOscillator /\ ZeroForcing
       /\ ConstsFinite(cst))
        => OutputsZero

C4_Witness ==
    /\ fn = "current" /\ pc = "done" /\ np = MaxNp
    /\ ValidOscillator /\ FGt(damping, Zero(1)) /\ ZeroForcing
    /\ ConstsFinite(cst) /\ OutputsZero

\* The operand of the legacy variant's integer conversion.
NsOperand(dt_in, per) == FSub(FDiv(FMul(Ten, dt_in), per), Hundredth)

LegacyRan == fn = "legacy" /\ pc # "prologue" /\ np >= 2
LegacyDtIn == FSub(times[1], times[0])
PositiveStep == FGt(LegacyDtIn, Zero(1)) /\ FGt(period, Zero(1))

\* C7 as stated: ns = floor(10 * dt_in / period - 0.01) + 1 and dt = dt_in / ns,
\* also when 10 * dt_in / period is below 0.01.
C7_NsFloorAsStated ==
    (LegacyRan /\ PositiveStep) =>
        /\ cst.ns = FAdd(FromInt(FFloor(NsOperand(LegacyDtIn, period))), One)
        /\ cst.dt = FDiv(LegacyDtIn, cst.ns)

\* C7: for dt_in > 0 and period > 0, ns = floor(10 * dt_in / period - 0.01) + 1
\* when 10 * dt_in / period - 0.01 is not negative, ns = 1 when it is negative
\* (the conversion truncates toward zero), and dt = dt_in / ns.
C7_NsTruncates ==
    (LegacyRan /\ PositiveStep) =>
        /\ FGe(NsOperand(LegacyDtIn, period), Zero(1)) =>
              cst.ns = FAdd(FromInt(FFloor(NsOperand(LegacyDtIn, period))), One)
        /\ FLt(NsOperand(LegacyDtIn, period), Zero(1)) => cst.ns = One
        /\ cst.dt = FDiv(LegacyDtIn, cst.ns)

C7_Witness ==
    /\ LegacyRan /\ PositiveStep /\ pc = "done"
    /\ FLt(NsOperand(LegacyDtIn, period), Zero(1))
    /\ cst.ns = One /\ cst.dt = LegacyDtIn

\* What the current variant leaves in its outputs, index by index.
CurrentNext(c, g, g1, prev) == CurrentStep(c, g, g1, prev.sdis, prev.svel)
CurrentResult(accA, n, dtv, per, damp) ==
    LET run[kk \in 0 .. n - 2] ==
            CurrentNext(CurrentConsts(dtv, per, damp), accA[kk], accA[kk + 1],
                        IF kk = 0 THEN [sdis |-> Zero(1), svel |-> Zero(1)]
                        ELSE run[kk - 1])
    IN run

Stored(kk) == [sdis |-> sdis[kk], svel |-> svel[kk], sacc |-> sacc[kk]]
Outputs(r) == [sdis |-> r.sdis, svel |-> r.svel, sacc |-> r.sacc]
StoredBefore(kk) == IF kk = 0 THEN [sdis |-> Zero(1), svel |-> Zero(1)]
                    ELSE [sdis |-> sdis[kk - 1], svel |-> svel[kk - 1]]

\* The legacy output at index kk is one step of the current kernel with the
\* time step dt_in / ns and the forcing increment (acc[kk + 1] - acc[kk]) / ns,
\* from the state stored at index kk - 1.
FirstSubStep(c, kk) ==
    Stored(kk) = Outputs(CurrentAdvance(c, acc[kk],
                                        FDiv(FSub(acc[kk + 1], acc[kk]), cst.ns),
                                        StoredBefore(kk).sdis, StoredBefore(kk).svel))

SameAsCurrent(res) == \A kk \in 0 .. np - 2 : Stored(kk) = Outputs(res[kk])

\* C10: when the legacy ns is 1, the legacy variant leaves in sacc, svel and
\* sdis what the current variant leaves for dt = times[1] - times[0]; for any
\* ns it takes, at each index, one step of size dt_in / ns with the forcing
\* increment (acc[k+1] - acc[k]) / ns and stores the state after that step.
C10_LegacyAgrees ==
    (fn = "legacy" /\ pc = "done" /\ np >= 2) =>
        /\ cst.dt = FDiv(LegacyDtIn, cst.ns)
        /\ \A kk \in 0 .. np - 2 :
              FirstSubStep(CurrentConsts(FDiv(LegacyDtIn, cst.ns), period, damping), kk)
        /\ cst.ns = One =>
              SameAsCurrent(CurrentResult(acc, np, LegacyDtIn, period, damping))

C10_Witness ==
    /\ fn = "legacy" /\ pc = "done" /\ np = MaxNp /\ cst.ns = One
    /\ IsFinite(sdis[np - 2]) /\ ~IsZero(sdis[np - 2])
    /\ SameAsCurrent(CurrentResult(acc, np, LegacyDtIn, period, damping))

(***************************************************************************)
(* Properties of konno_ohmachi_c.                                          *)
(***************************************************************************)
\* The targets whose value has been stored, and what each ended with.
TargetDone(ii) == ii < Len(fin)
EndOf(ii) == fin[ii + 1]
VisitsOf(ii) == SelectSeq(visit, LAMBDA v : v.i = ii)

Ratio(ii, jj) == FDiv(freqs[jj], ko_freqs[ii])
\* The inclusion test: the frequency is not below 1e-6 and its ratio to the
\* target lies in [min_ratio, max_ratio].
Passes(ii, jj) ==
    /\ FGe(freqs[jj], Eps6)
    /\ FLe(min_ratio, Ratio(ii, jj)) /\ FLe(Ratio(ii, jj), max_ratio)
Included(ii) == {jj \in 0 .. np - 1 : Passes(ii, jj)}

\* One store per finished target, in the order of the targets.
KoStores == [q \in 1 .. Len(fin) |-> <<"ko_smooth", q - 1>>]

\* C2: a target below 1e-6 (zero and negative ones too) gets NaN whatever spec,
\* freqs and bandwidth are, and the inner loop is not entered for it; the other
\* elements of ko_smooth are as their own targets leave them.
C2_LowTargetNaN ==
    (fn = "ko") =>
        /\ wlog = KoStores
        /\ \A ii \in 0 .. nko - 1 :
              /\ (TargetDone(ii) /\ FLt(ko_freqs[ii], Eps6)) =>
                    /\ IsNaN(ko_smooth[ii])
                    /\ EndOf(ii).skipped
                    /\ VisitsOf(ii) = <<>>
              /\ (TargetDone(ii) /\ ~FLt(ko_freqs[ii], Eps6)) =>
                    /\ ~EndOf(ii).skipped
                    /\ Len(VisitsOf(ii)) = np
                    /\ ko_smooth[ii] = KoResult(EndOf(ii).total, EndOf(ii).window_total)
              /\ ~TargetDone(ii) => ko_smooth[ii] = Sentinel

C2_Witness ==
    /\ fn = "ko" /\ pc = "done" /\ nko = MaxNko /\ np >= 1
    /\ FLt(ko_freqs[0], Eps6) /\ IsNaN(ko_smooth[0]) /\ VisitsOf(0) = <<>>
    /\ IsFinite(ko_smooth[1])

NonePasses(ii) ==
    \A jj \in 0 .. np - 1 :
        \/ FLt(freqs[jj], Eps6)
        \/ ~(FLe(min_ratio, Ratio(ii, jj)) /\ FLe(Ratio(ii, jj), max_ratio))

\* C3: for a target of at least 1e-6, if every frequency is below 1e-6 or has
\* its ratio outside [min_ratio, max_ratio] (np = 0 included), window_total is
\* still 0 at the end of the inner loop and the target gets NaN.
C3_NonePassNaN ==
    (fn = "ko") =>
        \A ii \in 0 .. nko - 1 :
            (TargetDone(ii) /\ FGe(ko_freqs[ii], Eps6) /\ NonePasses(ii)) =>
                /\ EndOf(ii).window_total = Zero(1)
                /\ EndOf(ii).total = Zero(1)
                /\ IsNaN(ko_smooth[ii])

C3_Witness ==
    /\ fn = "ko" /\ pc = "done" /\ np >= 2 /\ FGt(bandwidth, Zero(1))
    /\ \E ii \in 0 .. nko - 1 :
          /\ FGe(ko_freqs[ii], Eps6) /\ NonePasses(ii)
          /\ \E jj \in 0 .. np - 1 : FGe(freqs[jj], Eps6)
          /\ Len(VisitsOf(ii)) = np
          /\ IsNaN(ko_smooth[ii])

(***************************************************************************)
(* Exact comparisons of doubles as rationals, for error bounds.            *)
(***************************************************************************)
Min2(a, b) == IF a <= b THEN a ELSE b
\* The least exponent among the nonzero ones of a, b and c.
ExpFloor(a, b, c) ==
    Min2(IF a.m = 0 THEN EMax ELSE a.e,
         Min2(IF b.m = 0 THEN EMax ELSE b.e, IF c.m = 0 THEN EMax ELSE c.e))
\* a / 2^e0, an integer when e0 is at most the exponent of a.
Scaled(a, e0) == IF a.m = 0 THEN 0 ELSE a.s * a.m * Pow2(a.e - e0)

\* x - y <= (r * u / (1 - r * u)) * |z| for the unit roundoff u = 2^-Prec:
\* x exceeds y by no more than r roundings of relative size u can move a
\* quantity of size |z|.
ExceedsByRoundings(x, y, z, r, e0) ==
    (Scaled(x, e0) - Scaled(y, e0)) * (Pow2(Prec) - r) <= r * Abs(Scaled(z, e0))
ExceedsWithin(x, y, z, r) ==
    /\ IsFinite(x) /\ IsFinite(y) /\ IsFinite(z)
    /\ r < Pow2(Prec)
    /\ ExceedsByRoundings(x, y, z, r, ExpFloor(x, y, z))
\* |x - y| is within r roundings of |y|.
CloseTo(x, y, r) == ExceedsWithin(x, y, y, r) /\ ExceedsWithin(y, x, y, r)

FlatSpectrum == np >= 1 /\ \A jj \in 0 .. np - 1 : spec[jj] = spec[0]

\* x = bandwidth * log10(frat), and whether it vanishes for a pair.
WindowArg(ii, jj) == FMul(bandwidth, FLog10(Ratio(ii, jj)))
\* The bandwidth is large enough for bandwidth * log10(frat) not to underflow
\* to zero: at least four times the least normal double.
BandwidthNormal == FGt(bandwidth, Zero(1)) /\ ~BelowPow2(bandwidth, EMin + 2)

\* C5 as stated: for a flat spectrum spec[j] = c, a bandwidth above 0 and a
\* target of at least 1e-6 with some included frequency, ko_smooth[i] = c.
C5_FlatAsStated ==
    (fn = "ko" /\ FlatSpectrum /\ FGt(bandwidth, Zero(1))) =>
        \A ii \in 0 .. nko - 1 :
            (TargetDone(ii) /\ FGe(ko_freqs[ii], Eps6) /\ Included(ii) # {}) =>
                ko_smooth[ii] = spec[0]

\* C5: for a flat spectrum spec[j] = c, a bandwidth that does not underflow
\* the window argument, and a target of at least 1e-6 with n >= 1 included
\* frequencies, ko_smooth[i] is c exactly when c is 1, and otherwise differs
\* from c by at most the error of 2n roundings, 2nu / (1 - 2nu) * |c|.
C5_FlatWithinRounding ==
    (fn = "ko" /\ FlatSpectrum /\ BandwidthNormal) =>
        \A ii \in 0 .. nko - 1 :
            (TargetDone(ii) /\ FGe(ko_freqs[ii], Eps6) /\ Included(ii) # {}) =>
                /\ spec[0] = One => ko_smooth[ii] = One
                /\ CloseTo(ko_smooth[ii], spec[0], 2 * Cardinality(Included(ii)))

C5_Witness ==
    /\ fn = "ko" /\ pc = "done" /\ FlatSpectrum /\ BandwidthNormal
    /\ \E ii \in 0 .. nko - 1 :
          /\ FGe(ko_freqs[ii], Eps6) /\ Cardinality(Included(ii)) >= 2
          /\ ko_smooth[ii] # spec[0]
          /\ CloseTo(ko_smooth[ii], spec[0], 2 * Cardinality(Included(ii)))

\* |freq - fc| < 1e-6
NearTarget(ii, jj) == FLt(FAbs(FSub(freqs[jj], ko_freqs[ii])), Eps6)
\* (sin(x) / x)^4, as two squarings
SincFourth(xx) ==
    FMul(FMul(FDiv(FSin(xx), xx), FDiv(FSin(xx), xx)),
         FMul(FDiv(FSin(xx), xx), FDiv(FSin(xx), xx)))

\* The sums of a target's pairs, the excluded ones adding nothing.
RECURSIVE SumWindows(_, _)
SumWindows(vs, q) ==
    IF q = 0 THEN Zero(1)
    ELSE IF vs[q].incl THEN FAdd(SumWindows(vs, q - 1), vs[q].window)
    ELSE SumWindows(vs, q - 1)
RECURSIVE SumWeighted(_, _)
SumWeighted(vs, q) ==
    IF q = 0 THEN Zero(1)
    ELSE IF vs[q].incl
         THEN FAdd(SumWeighted(vs, q - 1), FMul(vs[q].window, spec[vs[q].j]))
    ELSE SumWeighted(vs, q - 1)

\* The inclusion test comes first: a pair is given a weight exactly when it
\* passes, and the sums of a target are those of its included pairs.
InclusionFirst ==
    /\ \A q \in 1 .. Len(visit) : visit[q].incl <=> Passes(visit[q].i, visit[q].j)
    /\ \A ii \in 0 .. nko - 1 :
          (TargetDone(ii) /\ ~EndOf(ii).skipped) =>
              /\ EndOf(ii).window_total = SumWindows(VisitsOf(ii), Len(VisitsOf(ii)))
              /\ EndOf(ii).total = SumWeighted(VisitsOf(ii), Len(VisitsOf(ii)))

\* The weight of an included pair: 1.0 near the target, else (sin(x) / x)^4.
WeightAsStated(v) ==
    v.incl =>
        /\ NearTarget(v.i, v.j) => v.window = One
        /\ ~NearTarget(v.i, v.j) => v.window = SincFourth(WindowArg(v.i, v.j))

\* sin(x) / x is not evaluated at x = 0.
NeverAtZero(v) ==
    (v.incl /\ ~NearTarget(v.i, v.j)) => ~IsZero(WindowArg(v.i, v.j))

\* sin(x) / x is evaluated at x = 0 only for a bandwidth that is zero or below
\* four times the least normal double, and the weight is then NaN.
AtZeroOnlyByUnderflow(v) ==
    (v.incl /\ ~NearTarget(v.i, v.j) /\ IsZero(WindowArg(v.i, v.j))) =>
        /\ IsZero(bandwidth) \/ BelowPow2(bandwidth, EMin + 2)
        /\ IsNaN(v.window)

\* C8 as stated: the inclusion test comes first; an included pair has weight
\* 1.0 when |freq - fc| < 1e-6 and (sin(x) / x)^4 otherwise, with
\* x = bandwidth * log10(frat), and sin(x) / x is never evaluated at x = 0.
C8_WeightAsStated ==
    (fn = "ko") =>
        /\ InclusionFirst
        /\ \A q \in 1 .. Len(visit) : WeightAsStated(visit[q]) /\ NeverAtZero(visit[q])

\* C8: the inclusion test comes first; an included pair has weight 1.0 when
\* |freq - fc| < 1e-6 and (sin(x) / x)^4 otherwise, with
\* x = bandwidth * log10(frat); x is zero there only when the bandwidth is
\* zero or so small that the product underflows, and the weight is then NaN.
C8_Weight ==
    (fn = "ko") =>
        /\ InclusionFirst
        /\ \A q \in 1 .. Len(visit) :
              WeightAsStated(visit[q]) /\ AtZeroOnlyByUnderflow(visit[q])

C8_Witness ==
    /\ fn = "ko" /\ pc = "done" /\ BandwidthNormal
    /\ \E q \in 1 .. Len(visit), r \in 1 .. Len(visit) :
          /\ visit[q].i = visit[r].i
          /\ visit[q].incl /\ NearTarget(visit[q].i, visit[q].j)
          /\ visit[q].window = One
          /\ visit[r].incl /\ ~NearTarget(visit[r].i, visit[r].j)
          /\ FLt(visit[r].window, One) /\ FGt(visit[r].window, Zero(1))
    /\ \E q \in 1 .. Len(visit) : ~visit[q].incl

\* The value lies between the least and the greatest included spec[j], up to
\* the error of 2n roundings of the greatest included magnitude.
BetweenWithin(x, ii, r) ==
    \E lo \in Included(ii), hi \in Included(ii), big \in Included(ii) :
        /\ FLe(spec[lo], x) \/ ExceedsWithin(spec[lo], x, spec[big], r)
        /\ FLe(x, spec[hi]) \/ ExceedsWithin(x, spec[hi], spec[big], r)
Between(x, ii) ==
    \E lo \in Included(ii), hi \in Included(ii) : FLe(spec[lo], x) /\ FLe(x, spec[hi])

WeightsInUnit ==
    \A q \in 1 .. Len(visit) :
        visit[q].incl => FGt(visit[q].window, Zero(1)) /\ FLe(visit[q].window, One)

\* C9 as stated: for bandwidth > 0 and a finite spec, every included weight is
\* in (0, 1]; a target of at least 1e-6 gets NaN exactly when no frequency
\* passes the inclusion test, and otherwise total / window_total, which lies
\* between the least and the greatest included spec[j].
C9_MeanAsStated ==
    (fn = "ko" /\ FGt(bandwidth, Zero(1))) =>
        /\ WeightsInUnit
        /\ \A ii \in 0 .. nko - 1 :
              (TargetDone(ii) /\ FGe(ko_freqs[ii], Eps6)) =>
                  /\ IsNaN(ko_smooth[ii]) <=> Included(ii) = {}
                  /\ Included(ii) # {} =>
                        /\ ko_smooth[ii] = FDiv(EndOf(ii).total, EndOf(ii).window_total)
                        /\ Between(ko_smooth[ii], ii)

\* C9: for a bandwidth that is positive and does not underflow the window
\* argument, and a finite spec, every included weight is in (0, 1]; a target of
\* at least 1e-6 gets NaN exactly when no frequency passes the inclusion test,
\* and otherwise total / window_total, which lies between the least and the
\* greatest included spec[j] up to the error of 2n roundings for n included
\* frequencies.
C9_Mean ==
    (fn = "ko" /\ BandwidthNormal) =>
        /\ WeightsInUnit
        /\ \A ii \in 0 .. nko - 1 :
              (TargetDone(ii) /\ FGe(ko_freqs[ii], Eps6)) =>
                  /\ IsNaN(ko_smooth[ii]) <=> Included(ii) = {}
                  /\ Included(ii) # {} =>
                        /\ ko_smooth[ii] = FDiv(EndOf(ii).total, EndOf(ii).window_total)
                        /\ BetweenWithin(ko_smooth[ii], ii,
                                         2 * Cardinality(Included(ii)))

C9_Witness ==
    /\ fn = "ko" /\ pc = "done" /\ BandwidthNormal /\ ~FlatSpectrum
    /\ \E ii \in 0 .. nko - 1 :
          /\ FGe(ko_freqs[ii], Eps6) /\ Cardinality(Included(ii)) >= 3
          /\ IsFinite(ko_smooth[ii])
          /\ \E lo \in Included(ii), hi \in Included(ii) :
                FLt(spec[lo], ko_smooth[ii]) /\ FLt(ko_smooth[ii], spec[hi])
          /\ ko_smooth[ii] = FDiv(EndOf(ii).total, EndOf(ii).window_total)
    /\ WeightsInUnit

\* C6 as stated: a call with an invalid parameter (damping >= 1, period <= 0,
\* np < 2; bandwidth <= 0) stops before any output element is written and
\* before any access leaves an array.
InvalidCall ==
    \/ /\ IsSpectral
       /\ FGe(damping, One) \/ FLe(period, Zero(1)) \/ np < 2
    \/ fn = "ko" /\ FLe(bandwidth, Zero(1))
C6_FailFast == InvalidCall => (wlog = <<>> /\ ~oob)
====
